---- MODULE Spec2Model ----
(***************************************************************************)
(* otelzap: a zap logger wrapper that mirrors log calls onto the active    *)
(* OpenTelemetry span and emits them as OpenTelemetry log records.         *)
(*                                                                         *)
(* The model follows one Logger instance (otelzap/logger.go) and the       *)
(* context-bound view LoggerWithCtx built on it.  The effects of the last  *)
(* operation on the three collaborators are kept as observations: the      *)
(* entries handed to the local zap logger, the operations on the span of   *)
(* the call's context, and the records handed to the OpenTelemetry logger. *)
(*                                                                         *)
(* WithError is modelled on unwrap chains of plain and humane.Error links, *)
(* the sugared logger on loosely-typed argument lists, and Clone and       *)
(* WithOptions on the slice headers and backing arrays of the one-shot     *)
(* lists, with two goroutines interleaving between the reads and writes of *)
(* a Logger's fields.                                                      *)
(***************************************************************************)
EXTENDS Integers, Sequences, FiniteSets, Bags, TLC

VARIABLES
    minLevel,          \* Logger.minLevel
    errorStatusLevel,  \* Logger.errorStatusLevel
    minAnnotateLevel,  \* Logger.minAnnotateLevel
    caller,            \* Logger.caller
    stackTrace,        \* Logger.stackTrace
    extraFields,       \* Logger.extraFields: added to every log entry
    extraFieldsOnce,   \* Logger.extraFieldsOnce: added to only the next log entry
    armed,             \* history: the fields passed to With since the last leveled call
    consumed,          \* history: the last leveled call had one-shot fields armed
    call,              \* the last operation: its entry point and arguments
    zapOut,            \* entries the last operation handed to l.skipCaller (local zap logger)
    spanAttrs,         \* span.SetAttributes calls of the last operation, in order
    spanStatus,        \* span.SetStatus calls of the last operation, in order
    spanErrors,        \* span.RecordError calls of the last operation, in order
    otelOut,           \* records the last operation handed to l.otelLogger.Emit
    events,            \* the collaborator calls of the last operation, in program order
    heap,              \* the backing arrays of the one-shot slices of derived instances
    loggers,           \* the Logger instances derived from a common parent
    threads,           \* the goroutines using the derived or shared instances
    sugar,             \* the fields the zap loggers of the SugaredLogger carry themselves
    provider           \* otelprovider.Logger under construction, and its environment

vars == <<minLevel, errorStatusLevel, minAnnotateLevel, caller, stackTrace,
          extraFields, extraFieldsOnce, armed, consumed, call, zapOut,
          spanAttrs, spanStatus, spanErrors, otelOut, events,
          heap, loggers, threads, sugar, provider>>

config == <<minLevel, errorStatusLevel, minAnnotateLevel, caller, stackTrace>>

\* the state of what is derived from the Logger the model follows: instances,
\* the goroutines using them, and the sugared logger
derived == <<heap, loggers, threads, sugar, provider>>

----
\* zapcore.Level

DebugLevel == -1
InfoLevel == 0
WarnLevel == 1
ErrorLevel == 2
DPanicLevel == 3
PanicLevel == 4
FatalLevel == 5

Levels == DebugLevel..FatalLevel

----
\* Bounds and input sets

MaxSticky == 1
MaxOnce == 2
MaxCall == 1

Keys == {"foo"}
Values == {"bar", "baz"}
Msgs == {"first", "second"}

\* zap.Field: a key and a value
Fields == [key : Keys, val : Values]

SeqUpTo(S, n) == UNION {[1..k -> S] : k \in 0..n}

\* what runtimeCaller can return: a resolved frame, or nothing
Resolved == [fn |-> "main.run", file |-> "main.go", line |-> 42, ok |-> TRUE]
Unresolved == [fn |-> "", file |-> "", line |-> 0, ok |-> FALSE]
CallerResults == {Resolved, Unresolved}

\* runtime.Frame: what runtime.CallersFrames gives for the program counter of
\* the calling frame; a function or a file it does not know is empty, and the
\* frame of a program counter it cannot place is the zero Frame
ZeroFrame == [Function |-> "", File |-> "", Line |-> 0, PC |-> 0]
Frames ==
    {ZeroFrame} \cup
    {[Function |-> fn, File |-> file, Line |-> IF file = "" THEN 0 ELSE 42, PC |-> 1] :
        fn \in {"", "main.run"}, file \in {"", "main.go"}}

\* the call stack at the depth asked for: n is what runtime.Callers returns
Stacks == {[n |-> 0, frame |-> ZeroFrame]} \cup {[n |-> 1, frame |-> f] : f \in Frames}

\* runtimeCaller(skip) on a stack
runtimeCaller(stack) ==
    IF stack.n < 1
    THEN [fn |-> "", file |-> "", line |-> 0, ok |-> FALSE]
    ELSE [fn |-> stack.frame.Function, file |-> stack.frame.File,
          line |-> stack.frame.Line, ok |-> stack.frame.PC # 0]

\* the argument lists the operations are called with
OnceLists == SeqUpTo(Fields, MaxOnce) \ {<<>>}
StickyLists == SeqUpTo(Fields, MaxSticky) \ {<<>>}
CallLists == SeqUpTo(Fields, MaxCall)

\* the errors WithError is called with: an unwrap chain, outermost link first.
\* A link either implements humane.Error, and then Advice() returns its advice
\* list, or it is a plain error (fmt.Errorf("...: %w", err)).
MaxChain == 3
AdviceLists == {<<>>, <<"advice">>, <<"retry">>}
Links == {[humane |-> FALSE, advice |-> <<>>]} \cup [humane : {TRUE}, advice : AdviceLists]
Errors == SeqUpTo(Links, MaxChain) \ {<<>>}

\* the loosely-typed argument lists of the sugared calls: strings, which are
\* keys or values by position, and zap.Field objects
MaxArgs == 3
ArgItems ==
    [t : {"string"}, s : {"foo", "bar"}]
        \cup {[t |-> "Field", f |-> [key |-> "foo", val |-> "baz"]]}
ArgLists == SeqUpTo(ArgItems, MaxArgs)

\* the templates of the printf-style calls and their one argument
Templates == {"hello %s"}
TemplateArgs == {<<"bar">>, <<"baz">>}

\* two goroutines beside the main one, and the instances they can use: the
\* parent (say the global logger) and one instance derived by each goroutine
Threads == {1, 2}
Instances == {"parent", "c1", "c2"}
InstanceOf(t) == IF t = 1 THEN "c1" ELSE "c2"

\* the field goroutine t arms with With: zap.String("request", id)
ThreadField(t) == [key |-> "request", val |-> IF t = 1 THEN "r1" ELSE "r2"]

\* how many one-shot fields the main goroutine arms on the parent
MaxPending == 3

\* what a goroutine does: use the parent itself, or an instance it derives
\* from the parent with Clone or with WithOptions
Programs ==
    {[role |-> "shared", how |-> "none"],
     [role |-> "derived", how |-> "Clone"],
     [role |-> "derived", how |-> "WithOptions"]}

\* the key and value SugaredLogger.With is called with
WithArgLists == {<<[t |-> "string", s |-> "hello"], [t |-> "string", s |-> "world"]>>}

\* l.Sugar(): neither the embedded zap SugaredLogger nor skipCaller carries a
\* field of its own
NoSugar == [SugaredLogger |-> <<>>, skipCaller |-> <<>>]

NoCall == [kind |-> "none"]

\* strings of the environment, as lists of characters.  An endpoint is made of
\* up to MaxSegments pieces: a character of a host name, and pieces of the port
\* numbers 4317 and 4318.
MaxSegments == 4
Segments == {<<"h">>, <<"4", "3", "1">>, <<"7">>, <<"8">>}

RECURSIVE Flatten(_)
Flatten(segs) == IF segs = <<>> THEN <<>> ELSE Head(segs) \o Flatten(Tail(segs))

Endpoints == {Flatten(segs) : segs \in SeqUpTo(Segments, MaxSegments)}

\* values of OTEL_EXPORTER_OTLP_INSECURE
InsecureValues == {"", "true", "false", "TRUE"}

\* l := &Logger{insecure: false, providerOptions: ...{}} in an environment
\* without the two variables
NoProvider ==
    [env |-> [endpoint |-> <<>>, insecure |-> ""],
     insecure |-> FALSE,
     providerOptions |-> <<>>,
     pc |-> "options"]
LeveledKinds == {"Logger", "LoggerWithCtx"}
SugaredKinds == {"SugaredLoggerWithCtx", "SugaredLogger"}

----
\* Conversions to the OpenTelemetry types

\* convertFields: one log.KeyValue per zap.Field, key preserved
convertFields(fields) ==
    [i \in 1..Len(fields) |-> [Key |-> fields[i].key, Value |-> fields[i].val]]

\* Attribute: the span attribute of a log.KeyValue, key preserved
Attribute(key, value) == [attr |-> key, value |-> value]

\* convertLevel: the OpenTelemetry severity of a zap level
convertLevel(lvl) == [severity |-> lvl]

----
\* Go slices of zap.Field: a slice is a pointer to a backing array and a
\* length, and its capacity is the length of the array.  arr = 0 is the nil
\* pointer; the heap keeps a free array as <<>>.

Arrays == 1..(Cardinality(Instances) + Cardinality(Threads))
ZeroField == [key |-> "", val |-> ""]
NilSlice == [arr |-> 0, len |-> 0]

Cap(h, s) == IF s.arr = 0 THEN 0 ELSE Len(h[s.arr])
WellFormed(h, s) == s.len <= Cap(h, s)

\* the elements of a slice
SliceOf(h, s) == [i \in 1..s.len |-> h[s.arr][i]]

\* the capacity append grows to (runtime.growslice below 256 elements; a
\* zap.Field is 64 bytes, so the size classes do not round it up)
NewCap(oldcap, newLen) == IF newLen > 2 * oldcap THEN newLen ELSE 2 * oldcap

\* append(s, fields...): in place when the capacity suffices, else into a new
\* array; the heap and the slice it leaves
append(h, s, fields) ==
    LET n == s.len + Len(fields)
    IN  IF n <= Cap(h, s)
        THEN LET old == h[s.arr]
             IN  [heap |-> [h EXCEPT ![s.arr] =
                               [i \in 1..Len(old) |->
                                   IF i > s.len /\ i <= n THEN fields[i - s.len]
                                   ELSE old[i]]],
                  slice |-> [arr |-> s.arr, len |-> n]]
        ELSE LET a == CHOOSE i \in Arrays :
                          h[i] = <<>> /\ \A j \in Arrays : h[j] = <<>> => i <= j
             IN  [heap |-> [h EXCEPT ![a] =
                               [i \in 1..NewCap(Cap(h, s), n) |->
                                   IF i <= s.len THEN h[s.arr][i]
                                   ELSE IF i <= n THEN fields[i - s.len]
                                   ELSE ZeroField]],
                  slice |-> [arr |-> a, len |-> n]]

\* the garbage collector: an array no instance and no goroutine points to is
\* freed
Collect(h, lg, th) ==
    [a \in Arrays |->
        IF a \in {lg[i].extraFieldsOnce.arr : i \in Instances}
                    \cup {th[t].hdr.arr : t \in Threads}
        THEN h[a] ELSE <<>>]

----
\* Logger (otelzap/logger.go)

\* Logger.With: the fields are appended to the one-shot list
Logger_With(fields) == extraFieldsOnce \o fields

\* Logger.WithOptions: the fields carried by the zap options are appended to
\* the clone's copy of the sticky list
Logger_WithOptions(fields) == extraFields \o fields

\* errors.Unwrap(err): the error the outermost link wraps, <<>> for nil
errors_Unwrap(err) == Tail(err)

\* errors.As(err, &herr) with herr a humane.Error: the first error of the
\* chain of err, err included, that implements humane.Error
RECURSIVE errors_As(_)
errors_As(err) ==
    IF err = <<>> THEN [ok |-> FALSE, herr |-> <<>>]
    ELSE IF Head(err).humane THEN [ok |-> TRUE, herr |-> err]
    ELSE errors_As(errors_Unwrap(err))

\* herr.Advice()
Advice(herr) == Head(herr).advice

\* the loop of Logger.WithError over the chain: the advice and the causes
RECURSIVE WalkChain(_, _, _)
WalkChain(err, advice, causes) ==
    IF err = <<>> THEN [advice |-> advice, causes |-> causes]
    ELSE LET as == errors_As(err)
         IN  IF as.ok
             THEN WalkChain(errors_Unwrap(err), advice \o Advice(as.herr), Append(causes, err))
             ELSE WalkChain(errors_Unwrap(err), advice, causes)

\* the fields of Logger.WithError with error_causes whenever there is a cause
ErrorFields_anyCause(err, advice, causes) ==
    <<[key |-> "error", val |-> err]>>
        \o (IF Len(advice) > 0 THEN <<[key |-> "error_advice", val |-> advice]>> ELSE <<>>)
        \o (IF Len(causes) > 0 THEN <<[key |-> "error_causes", val |-> Tail(causes)]>>
            ELSE <<>>)

\* the fields Logger.WithError builds from what the loop collected
ErrorFields(err, advice, causes) ==
    <<[key |-> "error", val |-> err]>>
        \o (IF Len(advice) > 0 THEN <<[key |-> "error_advice", val |-> advice]>> ELSE <<>>)
        \o (IF Len(causes) > 1 THEN <<[key |-> "error_causes", val |-> Tail(causes)]>>
            ELSE <<>>)

\* Logger.WithError: the fields handed to l.With
Logger_WithError(err) ==
    LET w == WalkChain(err, <<>>, <<>>)
    IN  ErrorFields(err, w.advice, w.causes)

\* Logger.logFields with the one-shot list left armed
Logger_logFields_keepOnce(fields) ==
    [fields |-> fields \o extraFields \o extraFieldsOnce,
     extraFieldsOnce |-> extraFieldsOnce]

\* Logger.logFields appending the accumulated fields first, the call's last
Logger_logFields_stickyFirst(fields) ==
    [fields |-> extraFields \o extraFieldsOnce \o fields, extraFieldsOnce |-> <<>>]

\* Logger.logFields with the one-shot branch as the else of the sticky branch
Logger_logFields_elseIf(fields) ==
    [fields |-> IF Len(extraFields) > 0 THEN fields \o extraFields
                ELSE fields \o extraFieldsOnce,
     extraFieldsOnce |-> <<>>]

\* Logger.logFields with the two appends swapped
Logger_logFields_onceFirst(fields) ==
    [fields |-> fields \o extraFieldsOnce \o extraFields, extraFieldsOnce |-> <<>>]

\* Logger.logFields: the fields of one call, and the one-shot list it leaves
Logger_logFields(fields) ==
    LET f1 == IF Len(extraFields) > 0 THEN fields \o extraFields ELSE fields
        f2 == IF Len(extraFieldsOnce) > 0 THEN f1 \o extraFieldsOnce ELSE f1
    IN  [fields |-> f2,
         extraFieldsOnce |-> IF Len(extraFieldsOnce) > 0 THEN <<>> ELSE extraFieldsOnce]

\* Logger.LogContext: the merged fields go to l.Ctx(ctx).l.skipCaller.Log, the
\* OpenTelemetry logger and the span of ctx are not used
Logger_LogContext(lvl, msg, fields) ==
    LET m == Logger_logFields(fields)
    IN  [extraFieldsOnce |-> m.extraFieldsOnce,
         zap |-> <<[lvl |-> lvl, msg |-> msg, fields |-> m.fields]>>]

----
\* LoggerWithCtx

NoTelemetry == [attrs |-> <<>>, status |-> <<>>, errors |-> <<>>, records |-> <<>>]

\* the code.* attributes attached whenever caller capture is enabled, with
\* whatever runtimeCaller returned
CallerAttrs_always(rc) ==
    IF caller
    THEN <<[Key |-> "code.function", Value |-> rc.fn],
           [Key |-> "code.filepath", Value |-> rc.file],
           [Key |-> "code.lineno", Value |-> rc.line]>>
    ELSE <<>>

\* the code.* attributes of a record
CallerAttrs(rc) ==
    IF caller /\ rc.ok
    THEN (IF rc.fn # "" THEN <<[Key |-> "code.function", Value |-> rc.fn]>> ELSE <<>>)
         \o (IF rc.file # ""
             THEN <<[Key |-> "code.filepath", Value |-> rc.file],
                    [Key |-> "code.lineno", Value |-> rc.line]>>
             ELSE <<>>)
    ELSE <<>>

StackAttrs ==
    IF stackTrace THEN <<[Key |-> "exception.stacktrace", Value |-> "goroutine 1"]>> ELSE <<>>

\* the record LoggerWithCtx.log builds
RecordOf(lvl, msg, kvs, rc) ==
    [body |-> msg,
     severity |-> convertLevel(lvl),
     attrs |-> kvs \o CallerAttrs(rc) \o StackAttrs]

\* LoggerWithCtx.log marking the span errored only when it does not annotate
LoggerWithCtx_log_exclusive(recording, lvl, msg, kvs, rc) ==
    LET ann == recording /\ lvl >= minAnnotateLevel
        err == recording /\ lvl >= errorStatusLevel /\ ~ann
    IN  [attrs |-> IF ann
                   THEN [i \in 1..Len(kvs) |-> Attribute(kvs[i].Key, kvs[i].Value)]
                   ELSE <<>>,
         status |-> IF err THEN <<[code |-> "Error", description |-> msg]>> ELSE <<>>,
         errors |-> IF err THEN <<msg>> ELSE <<>>,
         records |-> <<RecordOf(lvl, msg, kvs, rc)>>]

\* LoggerWithCtx.log without the span.IsRecording() test
LoggerWithCtx_log_anySpan(recording, lvl, msg, kvs, rc) ==
    LET err == lvl >= errorStatusLevel
    IN  [attrs |-> IF lvl >= minAnnotateLevel
                   THEN [i \in 1..Len(kvs) |-> Attribute(kvs[i].Key, kvs[i].Value)]
                   ELSE <<>>,
         status |-> IF err THEN <<[code |-> "Error", description |-> msg]>> ELSE <<>>,
         errors |-> IF err THEN <<msg>> ELSE <<>>,
         records |-> <<RecordOf(lvl, msg, kvs, rc)>>]

\* LoggerWithCtx.log: the span operations and the record of one call
LoggerWithCtx_log(recording, lvl, msg, kvs, rc) ==
    LET touch == (lvl >= minAnnotateLevel \/ lvl >= errorStatusLevel) /\ recording
        attrs == IF touch /\ lvl >= minAnnotateLevel
                 THEN [i \in 1..Len(kvs) |-> Attribute(kvs[i].Key, kvs[i].Value)]
                 ELSE <<>>
        err == touch /\ lvl >= errorStatusLevel
        record == RecordOf(lvl, msg, kvs, rc)
    IN  [attrs |-> attrs,
         status |-> IF err THEN <<[code |-> "Error", description |-> msg]>> ELSE <<>>,
         errors |-> IF err THEN <<msg>> ELSE <<>>,
         records |-> <<record>>]

\* the order in which LoggerWithCtx.log calls the span and the OpenTelemetry
\* logger
TelemetryEvents(tel) ==
    [i \in 1..Len(tel.attrs) |-> "span.SetAttributes"]
        \o [i \in 1..Len(tel.status) |-> "span.SetStatus"]
        \o [i \in 1..Len(tel.errors) |-> "span.RecordError"]
        \o [i \in 1..Len(tel.records) |-> "otelLogger.Emit"]

\* LoggerWithCtx.logFields comparing the level with > instead of >=
LoggerWithCtx_logFields_strict(recording, lvl, msg, fields, rc) ==
    LET m == Logger_logFields(fields)
    IN  [fields |-> m.fields,
         extraFieldsOnce |-> m.extraFieldsOnce,
         tel |-> IF lvl > minLevel
                 THEN LoggerWithCtx_log(recording, lvl, msg, convertFields(m.fields), rc)
                 ELSE NoTelemetry]

\* LoggerWithCtx.logFields comparing the level with the annotate threshold
LoggerWithCtx_logFields_annotateGate(recording, lvl, msg, fields, rc) ==
    LET m == Logger_logFields(fields)
    IN  [fields |-> m.fields,
         extraFieldsOnce |-> m.extraFieldsOnce,
         tel |-> IF lvl >= minAnnotateLevel
                 THEN LoggerWithCtx_log(recording, lvl, msg, convertFields(m.fields), rc)
                 ELSE NoTelemetry]

\* LoggerWithCtx.logFields calling log whatever the level
LoggerWithCtx_logFields_ungated(recording, lvl, msg, fields, rc) ==
    LET m == Logger_logFields(fields)
    IN  [fields |-> m.fields,
         extraFieldsOnce |-> m.extraFieldsOnce,
         tel |-> LoggerWithCtx_log(recording, lvl, msg, convertFields(m.fields), rc)]

\* LoggerWithCtx.logFields merging the fields only when the level passes
LoggerWithCtx_logFields_mergeWhenEmitting(recording, lvl, msg, fields, rc) ==
    LET m == Logger_logFields(fields)
    IN  IF lvl >= minLevel
        THEN [fields |-> m.fields,
              extraFieldsOnce |-> m.extraFieldsOnce,
              tel |-> LoggerWithCtx_log(recording, lvl, msg, convertFields(m.fields), rc)]
        ELSE [fields |-> fields, extraFieldsOnce |-> extraFieldsOnce, tel |-> NoTelemetry]

\* LoggerWithCtx.logFields: merge, then the telemetry path if the level passes
LoggerWithCtx_logFields(recording, lvl, msg, fields, rc) ==
    LET m == Logger_logFields(fields)
    IN  [fields |-> m.fields,
         extraFieldsOnce |-> m.extraFieldsOnce,
         tel |-> IF lvl >= minLevel
                 THEN LoggerWithCtx_log(recording, lvl, msg, convertFields(m.fields), rc)
                 ELSE NoTelemetry]

----
\* SugaredLogger and SugaredLoggerWithCtx (README.md)

\* zap.Any(key, value) for a value taken from the argument list
zap_Any(key, item) ==
    [key |-> key, val |-> IF item.t = "string" THEN item.s ELSE "zap.Field"]

\* the loop of SugaredLogger.logKVs from index i (counted from 1): the fields
\* it builds, or the runtime panic of args[i+1] past the end of args
RECURSIVE logKVs_loop(_, _, _)
logKVs_loop(args, i, kvs) ==
    IF i > Len(args) THEN [panic |-> FALSE, kvs |-> kvs]
    ELSE IF args[i].t = "Field" THEN logKVs_loop(args, i + 1, Append(kvs, args[i].f))
    ELSE IF i + 1 > Len(args) THEN [panic |-> TRUE, kvs |-> kvs]
    ELSE logKVs_loop(args, i + 2, Append(kvs, zap_Any(args[i].s, args[i + 1])))

\* what the zap SugaredLogger makes of an argument list (sweetenFields): a
\* trailing key without a value is reported and dropped
RECURSIVE sweetenFields(_, _, _)
sweetenFields(args, i, fields) ==
    IF i > Len(args) THEN fields
    ELSE IF args[i].t = "Field" THEN sweetenFields(args, i + 1, Append(fields, args[i].f))
    ELSE IF i = Len(args) THEN fields
    ELSE sweetenFields(args, i + 2, Append(fields, zap_Any(args[i].s, args[i + 1])))

\* SugaredLogger.With(args...): the sugared logger it returns
SugaredLogger_With(args) ==
    [SugaredLogger |-> sugar.SugaredLogger \o sweetenFields(args, 1, <<>>),
     skipCaller |-> sugar.skipCaller]

\* the fields carried by the zap logger that writes the entry of a sugared
\* call itself: s.s.skipCaller for the context-bound view, the embedded
\* SugaredLogger for SugaredLogger.DebugwContext .. FatalwContext
WriterFields(kind) ==
    IF kind = "SugaredLoggerWithCtx" THEN sugar.skipCaller ELSE sugar.SugaredLogger

\* fmt.Sprintf(template, args...)
Sprintf(template, args) ==
    IF template = "hello %s" /\ Len(args) = 1
    THEN (IF args[1] = "bar" THEN "hello bar" ELSE "hello baz")
    ELSE template

\* a local zap call at PanicLevel or FatalLevel does not return
Terminates(lvl) == lvl \in {PanicLevel, FatalLevel}

\* what a sugared call does when its helper (logKVs or logArgs) has handed
\* the fields kvs to Logger.LogContext: LogContext's local call first, and
\* unless that one panicked or exited, the call to the zap SugaredLogger
SugaredAfterHelper(lvl, msg, kvs, sweet) ==
    LET c == Logger_LogContext(lvl, msg, kvs)
    IN  [panic |-> FALSE,
         extraFieldsOnce |-> c.extraFieldsOnce,
         zap |-> IF Terminates(lvl) THEN c.zap
                 ELSE c.zap \o <<[lvl |-> lvl, msg |-> msg, fields |-> sweet]>>,
         tel |-> NoTelemetry]

\* a sugared call below minLevel: the helper returns at once
SugaredBelow(lvl, msg, sweet) ==
    [panic |-> FALSE,
     extraFieldsOnce |-> extraFieldsOnce,
     zap |-> <<[lvl |-> lvl, msg |-> msg, fields |-> sweet]>>,
     tel |-> NoTelemetry]

\* SugaredLoggerWithCtx.Debugw .. Fatalw, SugaredLogger.DebugwContext ..
\* FatalwContext: logKVs, then the zap SugaredLogger
Sugared_w(lvl, msg, args) ==
    IF lvl < minLevel THEN SugaredBelow(lvl, msg, sweetenFields(args, 1, <<>>))
    ELSE LET l == logKVs_loop(args, 1, <<>>)
         IN  IF l.panic
             THEN [panic |-> TRUE, extraFieldsOnce |-> extraFieldsOnce,
                   zap |-> <<>>, tel |-> NoTelemetry]
             ELSE SugaredAfterHelper(lvl, msg, l.kvs, sweetenFields(args, 1, <<>>))

\* SugaredLoggerWithCtx.Debugf .. Fatalf, SugaredLogger.DebugfContext ..
\* FatalfContext: logArgs, then the zap SugaredLogger
Sugared_f(lvl, template, args) ==
    IF lvl < minLevel THEN SugaredBelow(lvl, Sprintf(template, args), <<>>)
    ELSE SugaredAfterHelper(lvl, Sprintf(template, args),
                            <<[key |-> "log.template", val |-> template]>>, <<>>)

----
\* Operations

\* the record of a leveled call: entry point, arguments, the one-shot fields
\* armed for it, and whether the leveled call before it had any armed
CallOf(kind, recording, lvl, msg, fields) ==
    [kind |-> kind, recording |-> recording, lvl |-> lvl, msg |-> msg,
     fields |-> fields, once |-> armed, afterOnce |-> consumed]

\* l.With(fields...)
With ==
    \E fields \in OnceLists :
        /\ Len(extraFieldsOnce) + Len(fields) <= MaxOnce
        /\ extraFieldsOnce' = Logger_With(fields)
        /\ armed' = armed \o fields
        /\ call' = [kind |-> "With"]
        /\ zapOut' = <<>>
        /\ spanAttrs' = <<>>
        /\ spanStatus' = <<>>
        /\ spanErrors' = <<>>
        /\ otelOut' = <<>>
        /\ events' = <<>>
        /\ UNCHANGED <<config, extraFields, consumed, derived>>

\* l.WithError(err): the call record keeps what the loop collected and the
\* lists the call found
WithError ==
    \E err \in Errors :
        /\ Len(extraFieldsOnce) < MaxOnce
        /\ \E fields \in {Logger_WithError(err)} :
              /\ extraFieldsOnce' = Logger_With(fields)
              /\ armed' = armed \o fields
        /\ call' = [kind |-> "WithError", err |-> err,
                    advice |-> WalkChain(err, <<>>, <<>>).advice,
                    causes |-> WalkChain(err, <<>>, <<>>).causes,
                    onceBefore |-> extraFieldsOnce, stickyBefore |-> extraFields]
        /\ zapOut' = <<>>
        /\ spanAttrs' = <<>>
        /\ spanStatus' = <<>>
        /\ spanErrors' = <<>>
        /\ otelOut' = <<>>
        /\ events' = <<>>
        /\ UNCHANGED <<config, extraFields, consumed, derived>>

\* l.DebugContext(ctx, msg, fields...) .. l.FatalContext: the call's fields go
\* to l.Ctx(ctx).l.skipCaller as they are.  The call record keeps the fields
\* l.Ctx(ctx).Debug(msg, fields...) .. Fatal would hand to skipCaller in the
\* same state.
LoggerContext ==
    \E recording \in BOOLEAN, lvl \in Levels, fields \in CallLists :
        /\ call' = [kind |-> "LoggerContext", recording |-> recording, lvl |-> lvl,
                    msg |-> "first", fields |-> fields, once |-> armed,
                    viaCtx |-> LoggerWithCtx_logFields(recording, lvl, "first",
                                                       fields, Resolved).fields]
        /\ zapOut' = <<[lvl |-> lvl, msg |-> "first", fields |-> fields]>>
        /\ consumed' = FALSE
        /\ spanAttrs' = <<>>
        /\ spanStatus' = <<>>
        /\ spanErrors' = <<>>
        /\ otelOut' = <<>>
        /\ events' = <<"zap">>
        /\ UNCHANGED <<config, extraFields, extraFieldsOnce, armed, derived>>

\* s = s.With(key, value): the model follows the sugared logger returned
SugaredWith ==
    \E args \in WithArgLists :
        /\ sugar.SugaredLogger = <<>>
        /\ sugar' = SugaredLogger_With(args)
        /\ UNCHANGED <<config, extraFields, extraFieldsOnce, armed, consumed, call,
                       zapOut, spanAttrs, spanStatus, spanErrors, otelOut, events,
                       heap, loggers, threads, provider>>

\* the effects of a sugared call r on the logger and the collaborators
SugaredEffects(r) ==
    /\ extraFieldsOnce' = r.extraFieldsOnce
    /\ armed' = IF r.extraFieldsOnce = extraFieldsOnce THEN armed ELSE <<>>
    /\ consumed' = (r.extraFieldsOnce # extraFieldsOnce)
    /\ zapOut' = r.zap
    /\ spanAttrs' = r.tel.attrs
    /\ spanStatus' = r.tel.status
    /\ spanErrors' = r.tel.errors
    /\ otelOut' = r.tel.records
    /\ events' = TelemetryEvents(r.tel) \o [i \in 1..Len(r.zap) |-> "zap"]
    /\ UNCHANGED <<config, extraFields, derived>>

\* l.Sugar().Ctx(ctx).Debugw(msg, args...) .. Fatalw, or
\* l.Sugar().DebugwContext(ctx, msg, args...) .. FatalwContext
SugaredCtxw ==
    \E kind \in SugaredKinds, recording \in BOOLEAN, lvl \in Levels, args \in ArgLists :
        \E r \in {Sugared_w(lvl, "first", args)} :
            /\ call' = [kind |-> kind, method |-> "w", recording |-> recording,
                        lvl |-> lvl, msg |-> "first", args |-> args,
                        once |-> armed, panic |-> r.panic]
            /\ SugaredEffects(r)

\* l.Sugar().Ctx(ctx).Debugf(template, args...) .. Fatalf, or
\* l.Sugar().DebugfContext(ctx, template, args...) .. FatalfContext
SugaredCtxf ==
    \E kind \in SugaredKinds, recording \in BOOLEAN, lvl \in Levels,
       template \in Templates, args \in TemplateArgs :
        \E r \in {Sugared_f(lvl, template, args)} :
            /\ call' = [kind |-> kind, method |-> "f", recording |-> recording,
                        lvl |-> lvl, msg |-> Sprintf(template, args), args |-> args,
                        once |-> armed, panic |-> r.panic]
            /\ SugaredEffects(r)

\* l = l.WithOptions(zap.Fields(fields...)): the model follows the clone
WithOptions ==
    \E fields \in StickyLists :
        /\ Len(extraFields) + Len(fields) <= MaxSticky
        /\ extraFields' = Logger_WithOptions(fields)
        /\ call' = [kind |-> "WithOptions"]
        /\ zapOut' = <<>>
        /\ spanAttrs' = <<>>
        /\ spanStatus' = <<>>
        /\ spanErrors' = <<>>
        /\ otelOut' = <<>>
        /\ events' = <<>>
        /\ UNCHANGED <<config, extraFieldsOnce, armed, consumed, derived>>

\* l.Debug .. l.Fatal, l.Log(lvl, ...)
LoggerLeveled(msgs) ==
    \E lvl \in Levels, msg \in msgs, fields \in CallLists :
        \E m \in {Logger_logFields(fields)} :
            /\ call' = CallOf("Logger", FALSE, lvl, msg, fields)
            /\ extraFieldsOnce' = m.extraFieldsOnce
            /\ armed' = <<>>
            /\ consumed' = (armed # <<>>)
            /\ zapOut' = <<[lvl |-> lvl, msg |-> msg, fields |-> m.fields]>>
            /\ spanAttrs' = <<>>
            /\ spanStatus' = <<>>
            /\ spanErrors' = <<>>
            /\ otelOut' = <<>>
            /\ events' = <<"zap">>
            /\ UNCHANGED <<config, extraFields, derived>>

\* l.Ctx(ctx).Debug .. l.Ctx(ctx).Fatal
CtxLeveled(msgs, callers) ==
    \E recording \in BOOLEAN, lvl \in Levels, msg \in msgs,
       fields \in CallLists, rc \in callers :
        \E r \in {LoggerWithCtx_logFields(recording, lvl, msg, fields, rc)} :
            /\ call' = CallOf("LoggerWithCtx", recording, lvl, msg, fields)
            /\ extraFieldsOnce' = r.extraFieldsOnce
            /\ armed' = <<>>
            /\ consumed' = (armed # <<>>)
            /\ spanAttrs' = r.tel.attrs
            /\ spanStatus' = r.tel.status
            /\ spanErrors' = r.tel.errors
            /\ otelOut' = r.tel.records
            /\ zapOut' = <<[lvl |-> lvl, msg |-> msg, fields |-> r.fields]>>
            /\ events' = TelemetryEvents(r.tel) \o <<"zap">>
            /\ UNCHANGED <<config, extraFields, derived>>

\* l.Ctx(ctx).Debug .. l.Ctx(ctx).Fatal called from a place where the call
\* stack is stack
CtxLeveledAt(stacks) ==
    \E recording \in BOOLEAN, lvl \in Levels, msg \in Msgs,
       fields \in CallLists, stack \in stacks :
        \E rc \in {runtimeCaller(stack)} :
            \E r \in {LoggerWithCtx_logFields(recording, lvl, msg, fields, rc)} :
                /\ call' = [rc |-> rc] @@ CallOf("LoggerWithCtx", recording, lvl, msg, fields)
                /\ extraFieldsOnce' = r.extraFieldsOnce
                /\ armed' = <<>>
                /\ consumed' = (armed # <<>>)
                /\ spanAttrs' = r.tel.attrs
                /\ spanStatus' = r.tel.status
                /\ spanErrors' = r.tel.errors
                /\ otelOut' = r.tel.records
                /\ zapOut' = <<[lvl |-> lvl, msg |-> msg, fields |-> r.fields]>>
                /\ events' = TelemetryEvents(r.tel) \o <<"zap">>
                /\ UNCHANGED <<config, extraFields, derived>>

----
\* Goroutines on a shared or a derived instance.  No operation of Logger takes
\* a lock, so each one is the sequence of its reads and writes of
\* l.extraFieldsOnce, and the goroutines interleave between them.

\* the logger state that stays as New left it
followed == <<config, extraFields, extraFieldsOnce, armed, consumed, call, zapOut,
              spanAttrs, spanStatus, spanErrors, otelOut, events, sugar, provider>>

IdleThread ==
    [role |-> "none", how |-> "none", pc |-> "idle",
     hdr |-> NilSlice,      \* the slice header the goroutine has read
     seen |-> {},           \* history: the headers the parent held during the copy
     raced |-> FALSE,       \* history: the parent was written during the copy
     consistent |-> TRUE,   \* history: the copy is a header the parent held
     read |-> <<>>,         \* the one-shot fields logFields has read
     expected |-> <<>>,     \* history: the fields armed on the instance for this call
     after |-> {},          \* history: the goroutines whose call was over at the read
     pending |-> <<>>,      \* history: the fields armed on the parent at the start
     entry |-> <<>>]        \* the fields of the entry handed to l.skipCaller

\* the instance goroutine t uses
Inst(t) == IF threads[t].role = "derived" THEN InstanceOf(t) ELSE "parent"

\* a write of the instance inst's extraFieldsOnce to the header s, seen from
\* goroutine u: it falls into u's copy of the parent if u is in the middle of it
Written(u, inst, s) ==
    IF threads[u].pc = "deriveLen" /\ inst = "parent"
    THEN [threads[u] EXCEPT !.raced = TRUE, !.seen = @ \cup {s}]
    ELSE threads[u]

\* the main goroutine, before it starts the others: L().With(field)
ParentWith ==
    /\ \A t \in Threads : threads[t].pc = "idle"
    /\ loggers["parent"].extraFieldsOnce.len < MaxPending
    /\ \E f \in Fields :
          \E r \in {append(heap, loggers["parent"].extraFieldsOnce, <<f>>)} :
              /\ loggers' = [loggers EXCEPT !["parent"].extraFieldsOnce = r.slice,
                                            !["parent"].armed = Append(@, f)]
              /\ heap' = Collect(r.heap, loggers', threads)
    /\ UNCHANGED <<threads, followed>>

\* go f1(); go f2()
Go ==
    /\ \A t \in Threads : threads[t].pc = "idle"
    /\ \E prog \in [Threads -> Programs] :
          threads' = [t \in Threads |->
                         [IdleThread EXCEPT
                             !.role = prog[t].role,
                             !.how = prog[t].how,
                             !.pending = loggers["parent"].armed,
                             !.pc = IF prog[t].role = "derived" THEN "derive" ELSE "with"]]
    /\ UNCHANGED <<heap, loggers, followed>>

\* clone := *l, first half: the pointer of l.extraFieldsOnce
DeriveReadPtr(t) ==
    /\ threads[t].pc = "derive"
    /\ threads' = [threads EXCEPT
                      ![t].pc = "deriveLen",
                      ![t].hdr = [arr |-> loggers["parent"].extraFieldsOnce.arr, len |-> 0],
                      ![t].seen = {loggers["parent"].extraFieldsOnce}]
    /\ UNCHANGED <<heap, loggers, followed>>

\* clone := *l, second half: the length of l.extraFieldsOnce; return &clone.
\* A clone whose length exceeds its array is not used any further.
DeriveReadLen(t) ==
    /\ threads[t].pc = "deriveLen"
    /\ \E c \in {[arr |-> threads[t].hdr.arr,
                   len |-> loggers["parent"].extraFieldsOnce.len]} :
          /\ loggers' = [loggers EXCEPT ![InstanceOf(t)] =
                            [live |-> TRUE,
                             extraFieldsOnce |-> c,
                             armed |-> IF WellFormed(heap, c) THEN SliceOf(heap, c)
                                       ELSE <<>>]]
          /\ threads' = [threads EXCEPT
                            ![t].pc = IF WellFormed(heap, c) THEN "with" ELSE "abandoned",
                            ![t].hdr = NilSlice,
                            ![t].consistent = (c \in threads[t].seen)]
    /\ heap' = Collect(heap, loggers', threads')
    /\ UNCHANGED followed

\* l.With(field), first half: append reads l.extraFieldsOnce
WithRead(t) ==
    /\ threads[t].pc = "with"
    /\ threads' = [threads EXCEPT ![t].pc = "withWrite",
                                  ![t].hdr = loggers[Inst(t)].extraFieldsOnce]
    /\ UNCHANGED <<heap, loggers, followed>>

\* l.With(field), second half: append stores the field and the result is
\* assigned to l.extraFieldsOnce
WithWrite(t) ==
    /\ threads[t].pc = "withWrite"
    /\ \E r \in {append(heap, threads[t].hdr, <<ThreadField(t)>>)} :
          /\ loggers' = [loggers EXCEPT ![Inst(t)].extraFieldsOnce = r.slice,
                                        ![Inst(t)].armed = Append(@, ThreadField(t))]
          /\ threads' = [u \in Threads |->
                            IF u = t
                            THEN [threads[t] EXCEPT !.pc = "log", !.hdr = NilSlice]
                            ELSE Written(u, Inst(t), r.slice)]
          /\ heap' = Collect(r.heap, loggers', threads')
    /\ UNCHANGED followed

\* l.Error(msg), logFields up to the append of l.extraFieldsOnce; with an
\* empty list that is the whole call
LogRead(t) ==
    /\ threads[t].pc = "log"
    /\ \E s \in {loggers[Inst(t)].extraFieldsOnce} :
          threads' = [threads EXCEPT
                         ![t].pc = IF s.len > 0 THEN "logClear" ELSE "done",
                         ![t].read = SliceOf(heap, s),
                         ![t].expected = loggers[Inst(t)].armed,
                         ![t].after = {u \in Threads \ {t} : threads[u].pc = "done"}]
    /\ UNCHANGED <<heap, loggers, followed>>

\* the rest of l.Error(msg) without the assignment to l.extraFieldsOnce
LogClear_keep(t) ==
    /\ threads[t].pc = "logClear"
    /\ threads' = [threads EXCEPT ![t].pc = "done", ![t].entry = threads[t].read]
    /\ UNCHANGED <<heap, loggers, followed>>

\* l.Error(msg), the rest: l.extraFieldsOnce = make([]zap.Field, 0), and the
\* fields go to l.skipCaller
LogClear(t) ==
    /\ threads[t].pc = "logClear"
    /\ loggers' = [loggers EXCEPT ![Inst(t)].extraFieldsOnce = NilSlice,
                                  ![Inst(t)].armed = <<>>]
    /\ threads' = [u \in Threads |->
                      IF u = t
                      THEN [threads[t] EXCEPT !.pc = "done", !.entry = threads[t].read]
                      ELSE Written(u, Inst(t), NilSlice)]
    /\ heap' = Collect(heap, loggers', threads')
    /\ UNCHANGED followed

----
\* otelprovider.Logger (otelprovider/logging.go)

\* strings.Contains(s, substr)
strings_Contains(s, substr) ==
    \E i \in 0..(Len(s) - Len(substr)) : SubSeq(s, i + 1, i + Len(substr)) = substr

\* the port tokens WithLogAutomaticEnv looks for
Port4317 == <<"4", "3", "1", "7">>
Port4318 == <<"4", "3", "1", "8">>

\* WithLogInsecure()(t)
WithLogInsecure(t) == [t EXCEPT !.insecure = TRUE]

\* WithGrpcLogEndpoint(endpoint)(t) and WithHttpLogEndpoint(endpoint)(t): the
\* exporter is built with the endpoint, insecure if t.insecure, and its batch
\* processor joins the provider options; built = FALSE is New returning an
\* error, on which Fatalw ends the process
WithLogEndpoint(transport, endpoint, built, t) ==
    IF built
    THEN [t EXCEPT !.providerOptions =
                       Append(@, [exporter |-> transport, endpoint |-> endpoint,
                                  insecure |-> t.insecure])]
    ELSE [t EXCEPT !.pc = "exited"]

\* WithLogAutomaticEnv preferring the HTTP port token
WithLogAutomaticEnv_httpFirst(built, t) ==
    IF t.env.endpoint = <<>> THEN t
    ELSE LET t1 == IF t.env.insecure = "true" THEN WithLogInsecure(t) ELSE t
         IN  IF strings_Contains(t.env.endpoint, Port4318)
             THEN WithLogEndpoint("http", t.env.endpoint, built, t1)
             ELSE IF strings_Contains(t.env.endpoint, Port4317)
             THEN WithLogEndpoint("grpc", t.env.endpoint, built, t1)
             ELSE t1

\* WithLogAutomaticEnv()(t)
WithLogAutomaticEnv(built, t) ==
    IF t.env.endpoint = <<>> THEN t
    ELSE LET t1 == IF t.env.insecure = "true" THEN WithLogInsecure(t) ELSE t
         IN  IF strings_Contains(t.env.endpoint, Port4317)
             THEN WithLogEndpoint("grpc", t.env.endpoint, built, t1)
             ELSE IF strings_Contains(t.env.endpoint, Port4318)
             THEN WithLogEndpoint("http", t.env.endpoint, built, t1)
             ELSE t1

\* NewLogger(WithLogInsecure(), ...): the option is applied
LogInsecure ==
    /\ provider.pc = "options"
    /\ ~provider.insecure
    /\ provider' = WithLogInsecure(provider)
    /\ UNCHANGED <<config, extraFields, extraFieldsOnce, armed, consumed, call,
                   zapOut, spanAttrs, spanStatus, spanErrors, otelOut, events,
                   heap, loggers, threads, sugar>>

\* NewLogger(..., WithLogAutomaticEnv()): the option is applied, the last one
LogAutomaticEnv ==
    /\ provider.pc = "options"
    /\ \E built \in BOOLEAN :
          \E t \in {WithLogAutomaticEnv(built, provider)} :
              provider' = IF t.pc = "exited" THEN t ELSE [t EXCEPT !.pc = "applied"]
    /\ UNCHANGED <<config, extraFields, extraFieldsOnce, armed, consumed, call,
                   zapOut, spanAttrs, spanStatus, spanErrors, otelOut, events,
                   heap, loggers, threads, sugar>>

----
\* Instances derived from one another with WithOptions.  Here heap holds the
\* arrays of the sticky lists and loggers is the list of the instances made so
\* far, the logger from New first; the program keeps them all.

MaxInstances == 6

\* New(logger): no sticky fields
NewLogger == [from |-> 0, extraFields |-> NilSlice, fields |-> <<>>, returned |-> <<>>]

\* c := p.WithOptions(zap.Fields(field)) on any instance p made so far
DeriveWithOptions ==
    /\ Len(loggers) < MaxInstances
    /\ \E a \in Arrays : heap[a] = <<>>
    /\ \E p \in DOMAIN loggers, f \in Fields :
          \E r \in {append(heap, loggers[p].extraFields, <<f>>)} :
              /\ heap' = r.heap
              /\ loggers' = Append(loggers,
                                   [from |-> p,               \* history: the receiver
                                    extraFields |-> r.slice,  \* clone.extraFields
                                    fields |-> <<f>>,         \* history: the option's fields
                                    \* history: the sticky list at the return
                                    returned |-> SliceOf(r.heap, r.slice)])
    /\ UNCHANGED <<threads, followed>>

----
\* Specifications

\* the state New leaves behind, but for the thresholds and capture flags
NoFieldsNoCalls ==
    /\ extraFields = <<>>
    /\ extraFieldsOnce = <<>>
    /\ armed = <<>>
    /\ consumed = FALSE
    /\ call = NoCall
    /\ zapOut = <<>>
    /\ spanAttrs = <<>>
    /\ spanStatus = <<>>
    /\ spanErrors = <<>>
    /\ otelOut = <<>>
    /\ events = <<>>
    /\ heap = <<>>
    /\ loggers = <<>>
    /\ threads = <<>>
    /\ sugar = NoSugar
    /\ provider = NoProvider

\* New with the annotate threshold defaulting to the error-status threshold
Init_annotateAtError ==
    /\ minLevel = InfoLevel
    /\ errorStatusLevel = ErrorLevel
    /\ minAnnotateLevel = ErrorLevel
    /\ caller = TRUE
    /\ stackTrace = FALSE
    /\ NoFieldsNoCalls

\* New(logger): the default thresholds and capture flags, no fields
Init ==
    /\ minLevel = InfoLevel
    /\ errorStatusLevel = ErrorLevel
    /\ minAnnotateLevel = WarnLevel
    /\ caller = TRUE
    /\ stackTrace = FALSE
    /\ NoFieldsNoCalls

\* a logger from New used through With, WithOptions and the leveled calls,
\* called from a place whose frame resolves
Next ==
    \/ With
    \/ WithOptions
    \/ LoggerLeveled({"first"})
    \/ CtxLeveled({"first"}, {Resolved})

Spec == Init /\ [][Next]_vars

\* l.WithError(err).Error(msg, fields...) and the like on a logger from New
\* that WithOptions may have given sticky fields and With one-shot fields
Unused == call.kind \in {"none", "With", "WithOptions"}
Prepare == Unused /\ (With \/ WithOptions)
ErrArm == Unused /\ WithError
ErrCall == call.kind = "WithError" /\ LoggerLeveled({"first"})

NextErr ==
    \/ Prepare
    \/ ErrArm
    \/ ErrCall

SpecErr == Init /\ [][NextErr]_vars

\* one call with a context on a logger from New that WithOptions may have
\* given sticky fields and With one-shot fields: through the sugared logger, or
\* through the context-bound view
SugarCall == Unused /\ (SugaredCtxw \/ SugaredCtxf)
PlainCall == Unused /\ CtxLeveled({"first"}, {Resolved})
ContextCall == Unused /\ LoggerContext

SugarPrepare == Unused /\ SugaredWith

NextSugar ==
    \/ Prepare
    \/ SugarPrepare
    \/ SugarCall
    \/ PlainCall
    \/ ContextCall

SpecSugar == Init /\ [][NextSugar]_vars

\* the main goroutine arms one-shot fields on the parent and then starts two
\* goroutines; each arms its field and logs, on the parent or on an instance
\* it derives from the parent
InitThreads ==
    /\ minLevel = InfoLevel
    /\ errorStatusLevel = ErrorLevel
    /\ minAnnotateLevel = WarnLevel
    /\ caller = TRUE
    /\ stackTrace = FALSE
    /\ extraFields = <<>>
    /\ extraFieldsOnce = <<>>
    /\ armed = <<>>
    /\ consumed = FALSE
    /\ call = NoCall
    /\ zapOut = <<>>
    /\ spanAttrs = <<>>
    /\ spanStatus = <<>>
    /\ spanErrors = <<>>
    /\ otelOut = <<>>
    /\ events = <<>>
    /\ heap = [a \in Arrays |-> <<>>]
    /\ loggers = [i \in Instances |->
                     [live |-> i = "parent", extraFieldsOnce |-> NilSlice, armed |-> <<>>]]
    /\ threads = [t \in Threads |-> IdleThread]
    /\ sugar = NoSugar
    /\ provider = NoProvider

NextThreads ==
    \/ ParentWith
    \/ Go
    \/ \E t \in Threads : DeriveReadPtr(t)
    \/ \E t \in Threads : DeriveReadLen(t)
    \/ \E t \in Threads : WithRead(t)
    \/ \E t \in Threads : WithWrite(t)
    \/ \E t \in Threads : LogRead(t)
    \/ \E t \in Threads : LogClear(t)

SpecThreads == InitThreads /\ [][NextThreads]_vars

\* New(logger, WithMinLevel(a), WithAnnotateLevel(b), WithErrorStatusLevel(c),
\*     WithCaller(d), WithStackTrace(e)): any thresholds and capture flags
InitGate ==
    /\ minLevel \in Levels
    /\ errorStatusLevel \in Levels
    /\ minAnnotateLevel \in Levels
    /\ caller \in BOOLEAN
    /\ stackTrace \in BOOLEAN
    /\ NoFieldsNoCalls

\* a logger with or without caller capture
InitCaller ==
    /\ minLevel = InfoLevel
    /\ errorStatusLevel = ErrorLevel
    /\ minAnnotateLevel = WarnLevel
    /\ caller \in BOOLEAN
    /\ stackTrace \in BOOLEAN
    /\ NoFieldsNoCalls

\* the first leveled call on a context-bound view, from anywhere
CallerCall == call = NoCall /\ CtxLeveledAt(Stacks)

NextCaller == CallerCall

SpecCaller == InitCaller /\ [][NextCaller]_vars

\* a logger from New and the instances derived from it and from one another
InitSticky ==
    /\ minLevel = InfoLevel
    /\ errorStatusLevel = ErrorLevel
    /\ minAnnotateLevel = WarnLevel
    /\ caller = TRUE
    /\ stackTrace = FALSE
    /\ extraFields = <<>>
    /\ extraFieldsOnce = <<>>
    /\ armed = <<>>
    /\ consumed = FALSE
    /\ call = NoCall
    /\ zapOut = <<>>
    /\ spanAttrs = <<>>
    /\ spanStatus = <<>>
    /\ spanErrors = <<>>
    /\ otelOut = <<>>
    /\ events = <<>>
    /\ heap = [a \in Arrays |-> <<>>]
    /\ loggers = <<NewLogger>>
    /\ threads = <<>>
    /\ sugar = NoSugar
    /\ provider = NoProvider

NextSticky == DeriveWithOptions

\* NewLogger with WithLogAutomaticEnv as its last option, after WithLogInsecure
\* or not, in any environment
InitEnv ==
    /\ minLevel = InfoLevel
    /\ errorStatusLevel = ErrorLevel
    /\ minAnnotateLevel = WarnLevel
    /\ caller = TRUE
    /\ stackTrace = FALSE
    /\ extraFields = <<>>
    /\ extraFieldsOnce = <<>>
    /\ armed = <<>>
    /\ consumed = FALSE
    /\ call = NoCall
    /\ zapOut = <<>>
    /\ spanAttrs = <<>>
    /\ spanStatus = <<>>
    /\ spanErrors = <<>>
    /\ otelOut = <<>>
    /\ events = <<>>
    /\ heap = <<>>
    /\ loggers = <<>>
    /\ threads = <<>>
    /\ sugar = NoSugar
    /\ \E endpoint \in Endpoints, insecure \in InsecureValues :
          provider = [NoProvider EXCEPT !.env = [endpoint |-> endpoint,
                                                 insecure |-> insecure]]

NextEnv ==
    \/ LogInsecure
    \/ LogAutomaticEnv

SpecEnv == InitEnv /\ [][NextEnv]_vars

SpecSticky == InitSticky /\ [][NextSticky]_vars

\* the first leveled call on a context-bound view of the new logger
GateCall == call = NoCall /\ CtxLeveled(Msgs, CallerResults)

NextGate == GateCall

SpecGate == InitGate /\ [][NextGate]_vars

----
\* Properties

Leveled == call.kind \in LeveledKinds
CtxCalled == call.kind = "LoggerWithCtx"

\* how often x occurs in the sequence s
Count(s, x) == Cardinality({i \in DOMAIN s : s[i] = x})

\* the span attributes of a field sequence
AttrsOf(fields) ==
    [i \in 1..Len(fields) |->
        Attribute(convertFields(fields)[i].Key, convertFields(fields)[i].Value)]

\* C1: the fields armed with With since the previous leveled call are in the
\* entry of the next leveled call on the instance, and in no later one: every
\* field occurs in the entry as often as the call site, the sticky list and the
\* fields armed for this call supply it.
C1_OneShotNextCallOnly ==
    Leveled =>
        /\ Len(zapOut) = 1
        /\ \A f \in Fields :
              Count(zapOut[1].fields, f)
                  = Count(call.fields, f) + Count(extraFields, f) + Count(call.once, f)

\* C1 witness: Error(msg, field) right after a leveled call that carried
\* one-shot fields; the entry holds the call-site field alone.
C1_Witness ==
    /\ call.kind = "Logger"
    /\ call.lvl = ErrorLevel
    /\ call.afterOnce
    /\ call.once = <<>>
    /\ extraFields = <<>>
    /\ call.fields # <<>>
    /\ Len(zapOut) = 1
    /\ zapOut[1].fields = call.fields

\* C2: a leveled call on a context-bound logger whose level is at or above
\* minLevel hands exactly one record to the OpenTelemetry logger, carrying the
\* call's message and level.
C2_EmitAtOrAboveMinimum ==
    (CtxCalled /\ call.lvl >= minLevel) =>
        /\ Len(otelOut) = 1
        /\ otelOut[1].body = call.msg
        /\ otelOut[1].severity = convertLevel(call.lvl)

\* C2 witness: a call exactly at minLevel emitted its record.
C2_Witness ==
    /\ CtxCalled
    /\ call.lvl = minLevel
    /\ Len(otelOut) = 1

\* C3: a context-bound leveled call below minLevel emits no record and makes
\* no span call, and its message still goes to the local zap logger.
C3_BelowMinimumLocalOnly ==
    (CtxCalled /\ call.lvl < minLevel) =>
        /\ otelOut = <<>>
        /\ spanAttrs = <<>>
        /\ spanStatus = <<>>
        /\ spanErrors = <<>>
        /\ Len(zapOut) = 1
        /\ zapOut[1].lvl = call.lvl
        /\ zapOut[1].msg = call.msg

\* C3 witness: Debug on a logger with the default emit threshold, with a
\* recording span in the context.
C3_Witness ==
    /\ CtxCalled
    /\ call.lvl = DebugLevel
    /\ minLevel = InfoLevel
    /\ call.recording
    /\ otelOut = <<>>
    /\ Len(zapOut) = 1

\* C4 as claimed: with a recording span, a context-bound call below minLevel
\* and at or above minAnnotateLevel copies its fields onto the span while no
\* record is emitted.
C4_AnnotateBelowEmitMinimum ==
    (CtxCalled /\ call.recording /\ call.lvl < minLevel
        /\ call.lvl >= minAnnotateLevel) =>
        /\ spanAttrs = AttrsOf(zapOut[1].fields)
        /\ otelOut = <<>>

\* C4 amended: the span calls sit inside the emit gate.  With a recording
\* span, the fields are copied onto the span exactly when the level is at or
\* above both minLevel and minAnnotateLevel, and the span is marked errored
\* exactly when it is at or above both minLevel and errorStatusLevel.
C4_SpanCallsInsideEmitGate ==
    (CtxCalled /\ call.recording) =>
        /\ spanAttrs = IF call.lvl >= minLevel /\ call.lvl >= minAnnotateLevel
                       THEN AttrsOf(zapOut[1].fields)
                       ELSE <<>>
        /\ (spanStatus # <<>>) = (call.lvl >= minLevel /\ call.lvl >= errorStatusLevel)
        /\ (spanErrors # <<>>) = (call.lvl >= minLevel /\ call.lvl >= errorStatusLevel)

\* C4 witness: a call with a field, below minLevel and at or above the two
\* span thresholds, left the recording span alone.
C4_Witness ==
    /\ CtxCalled
    /\ call.recording
    /\ call.fields # <<>>
    /\ call.lvl < minLevel
    /\ call.lvl >= minAnnotateLevel
    /\ call.lvl >= errorStatusLevel
    /\ spanAttrs = <<>>
    /\ spanStatus = <<>>
    /\ otelOut = <<>>

\* C5: a logger from New has emit threshold Info, annotate threshold Warn and
\* error-status threshold Error; on it a context-bound Warn call with a
\* recording span sets the fields as span attributes, sets no status, records
\* no error, and emits one record.
C5_DefaultsWarnAnnotatesOnly ==
    /\ minLevel = InfoLevel
    /\ minAnnotateLevel = WarnLevel
    /\ errorStatusLevel = ErrorLevel
    /\ (CtxCalled /\ call.lvl = WarnLevel /\ call.recording) =>
          /\ spanAttrs = AttrsOf(zapOut[1].fields)
          /\ spanStatus = <<>>
          /\ spanErrors = <<>>
          /\ Len(otelOut) = 1

\* C5 witness: such a Warn call with fields from the call site, the sticky
\* list and the one-shot list.
C5_Witness ==
    /\ CtxCalled
    /\ call.lvl = WarnLevel
    /\ call.recording
    /\ call.fields # <<>>
    /\ call.once # <<>>
    /\ extraFields # <<>>
    /\ Len(spanAttrs) = Len(call.fields) + Len(extraFields) + Len(call.once)
    /\ Len(otelOut) = 1

\* C6: for a call that passes the emit gate with a recording span, the span
\* gets the merged fields as attributes iff the level is at or above
\* minAnnotateLevel, and gets status Error with the message as description and
\* an error event with the message iff it is at or above errorStatusLevel;
\* neither decision depends on the other.
C6_AnnotateAndMarkIndependently ==
    (CtxCalled /\ call.recording /\ call.lvl >= minLevel) =>
        /\ spanAttrs = IF call.lvl >= minAnnotateLevel
                       THEN AttrsOf(zapOut[1].fields)
                       ELSE <<>>
        /\ spanStatus = IF call.lvl >= errorStatusLevel
                        THEN <<[code |-> "Error", description |-> call.msg]>>
                        ELSE <<>>
        /\ spanErrors = IF call.lvl >= errorStatusLevel THEN <<call.msg>> ELSE <<>>

\* C6 witness: one call that both annotated the span and marked it errored.
C6_Witness ==
    /\ CtxCalled
    /\ call.recording
    /\ call.lvl >= minLevel
    /\ call.lvl >= minAnnotateLevel
    /\ call.lvl >= errorStatusLevel
    /\ spanAttrs # <<>>
    /\ spanStatus = <<[code |-> "Error", description |-> call.msg]>>
    /\ spanErrors = <<call.msg>>

\* C7: without a recording span a context-bound leveled call makes no span
\* call at any level, and still emits its record when the level is at or above
\* minLevel.
C7_NoRecordingSpanNoSpanCalls ==
    (CtxCalled /\ ~call.recording) =>
        /\ spanAttrs = <<>>
        /\ spanStatus = <<>>
        /\ spanErrors = <<>>
        /\ Len(zapOut) = 1
        /\ (call.lvl >= minLevel) => Len(otelOut) = 1

\* C7 witness: a call with a field, at or above all three thresholds, without
\* a recording span: one record, no span call.
C7_Witness ==
    /\ CtxCalled
    /\ ~call.recording
    /\ call.fields # <<>>
    /\ call.lvl >= minLevel
    /\ call.lvl >= minAnnotateLevel
    /\ call.lvl >= errorStatusLevel
    /\ Len(otelOut) = 1
    /\ spanAttrs = <<>>
    /\ spanStatus = <<>>

\* the keys of a field sequence, and the value of the last field with key k
KeysOf(fields) == {fields[i].key : i \in DOMAIN fields}
LastValue(fields, k) ==
    fields[CHOOSE i \in DOMAIN fields :
              /\ fields[i].key = k
              /\ \A j \in DOMAIN fields : fields[j].key = k => j <= i].val

\* the value of the last log.KeyValue with key k
LastAttrValue(kvs, k) ==
    kvs[CHOOSE i \in DOMAIN kvs :
           /\ kvs[i].Key = k
           /\ \A j \in DOMAIN kvs : kvs[j].Key = k => j <= i].Value

\* the attributes of a record that come from fields: all but the code.* and
\* exception.* attributes log appends
FieldAttrs(record) ==
    SelectSeq(record.attrs,
              LAMBDA kv : kv.Key \notin {"code.function", "code.filepath",
                                         "code.lineno", "exception.stacktrace"})

\* C8 as claimed: the fields of one call are the sticky fields, then the
\* one-shot fields, then the call-site fields.
C8_StickyOnceCallSite ==
    Leveled => zapOut[1].fields = extraFields \o call.once \o call.fields

\* C8 amended: the fields of one call are the call-site fields in call order,
\* then the sticky fields in accumulation order, then the one-shot fields in
\* accumulation order; the span attributes of an annotating call follow the
\* same order.
C8_CallSiteStickyOnce ==
    Leveled =>
        /\ zapOut[1].fields = call.fields \o extraFields \o call.once
        /\ spanAttrs # <<>> =>
              spanAttrs = AttrsOf(call.fields \o extraFields \o call.once)

\* C8 witness: a call with all three sources present whose entry starts with
\* the call-site field and is not in the claimed order.
C8_Witness ==
    /\ Leveled
    /\ call.fields # <<>>
    /\ extraFields # <<>>
    /\ Len(call.once) = MaxOnce
    /\ zapOut[1].fields[1] = call.fields[1]
    /\ zapOut[1].fields # extraFields \o call.once \o call.fields

\* C9: merging loses no field.  The entry of a leveled call has as many
\* fields as the sticky list, the one-shot fields armed for it and the call
\* site hold together, each field of the three is among them, and the record
\* of a call that passes the emit gate has one attribute for each.
C9_MergeLosesNoField ==
    Leveled =>
        /\ Len(zapOut[1].fields)
              = Len(extraFields) + Len(call.once) + Len(call.fields)
        /\ \A f \in Fields :
              (Count(extraFields, f) + Count(call.once, f) + Count(call.fields, f) > 0)
                  => Count(zapOut[1].fields, f) > 0
        /\ (CtxCalled /\ call.lvl >= minLevel) =>
              Len(FieldAttrs(otelOut[1]))
                  = Len(extraFields) + Len(call.once) + Len(call.fields)

\* C9 witness: a call with each of the three sources at its largest.
C9_Witness ==
    /\ CtxCalled
    /\ call.lvl >= minLevel
    /\ Len(extraFields) = MaxSticky
    /\ Len(call.once) = MaxOnce
    /\ Len(call.fields) = MaxCall
    /\ Len(zapOut[1].fields) = MaxSticky + MaxOnce + MaxCall
    /\ Len(FieldAttrs(otelOut[1])) = MaxSticky + MaxOnce + MaxCall

\* C10 as claimed: the keys of an emitted record are unique, and a key the
\* call site supplies carries the call site's value.
C10_UniqueKeysCallSiteWins ==
    (CtxCalled /\ call.lvl >= minLevel) =>
        /\ \A i, j \in DOMAIN otelOut[1].attrs :
              otelOut[1].attrs[i].Key = otelOut[1].attrs[j].Key => i = j
        /\ \A k \in KeysOf(call.fields) :
              \A i \in DOMAIN otelOut[1].attrs :
                  otelOut[1].attrs[i].Key = k
                      => otelOut[1].attrs[i].Value = LastValue(call.fields, k)

\* C10 amended: nothing is deduplicated.  A key occurs in the entry and in the
\* emitted record as often as the three sources supply it, and its last
\* occurrence carries the value of the last supplier in the order call site,
\* sticky list, one-shot list.
C10_DuplicateKeysKept ==
    Leveled =>
        \A k \in Keys :
            LET supplied == call.fields \o extraFields \o call.once
                n == Cardinality({i \in DOMAIN supplied : supplied[i].key = k})
            IN  /\ Cardinality({i \in DOMAIN zapOut[1].fields :
                                   zapOut[1].fields[i].key = k}) = n
                /\ n > 0 => LastValue(zapOut[1].fields, k) = LastValue(supplied, k)
                /\ (CtxCalled /\ call.lvl >= minLevel) =>
                      /\ Cardinality({i \in DOMAIN otelOut[1].attrs :
                                         otelOut[1].attrs[i].Key = k}) = n
                      /\ n > 0 =>
                            LastAttrValue(otelOut[1].attrs, k) = LastValue(supplied, k)

\* C10 witness: the call site and the one-shot list supply the same key with
\* different values; the record holds both and the one-shot value comes last.
C10_Witness ==
    /\ CtxCalled
    /\ call.lvl >= minLevel
    /\ Len(call.fields) = 1
    /\ extraFields = <<>>
    /\ Len(call.once) = 1
    /\ call.fields[1].key = call.once[1].key
    /\ call.fields[1].val # call.once[1].val
    /\ Len(FieldAttrs(otelOut[1])) = 2
    /\ FieldAttrs(otelOut[1])[1].Value = call.fields[1].val
    /\ FieldAttrs(otelOut[1])[2].Value = call.once[1].val

----
\* WithError

\* the fields the last operation, a WithError, appended to the one-shot list
ArmedByWithError ==
    SubSeq(extraFieldsOnce, Len(call.onceBefore) + 1, Len(extraFieldsOnce))

\* the value of the field WithError armed under the key k, <<>> without one
ArmedValue(k) ==
    LET at == {i \in DOMAIN ArmedByWithError : ArmedByWithError[i].key = k}
    IN  IF at = {} THEN <<>> ELSE ArmedByWithError[CHOOSE i \in at : TRUE].val

\* the advice lists of the links of the chain that expose advice, each once,
\* outermost first
RECURSIVE AdviceOfLinks(_)
AdviceOfLinks(err) ==
    IF err = <<>> THEN <<>>
    ELSE (IF Head(err).humane THEN Head(err).advice ELSE <<>>)
             \o AdviceOfLinks(Tail(err))

\* the errors of the chain that themselves implement humane.Error, outermost
\* first
RECURSIVE StructuredLinks(_)
StructuredLinks(err) ==
    IF err = <<>> THEN <<>>
    ELSE (IF Head(err).humane THEN <<err>> ELSE <<>>) \o StructuredLinks(Tail(err))

\* C11: the error_advice field WithError arms is the concatenation, outermost
\* link first, of the advice lists of the chain links that expose advice, each
\* link contributing its advice exactly once (no field when that is empty).
C11_AdviceOncePerLink ==
    call.kind = "WithError" =>
        ArmedValue("error_advice") = AdviceOfLinks(call.err)

\* C12: the causes WithError collects are exactly the chain links that are
\* themselves structured errors, outermost first; error_causes holds all of
\* them but the first, and never a link that is not a structured error.
C12_CausesAreStructuredLinks ==
    call.kind = "WithError" =>
        /\ call.causes = StructuredLinks(call.err)
        /\ ArmedValue("error_causes")
              = (IF Len(StructuredLinks(call.err)) > 1
                 THEN Tail(StructuredLinks(call.err)) ELSE <<>>)
        /\ \A i \in DOMAIN ArmedValue("error_causes") :
              Head(ArmedValue("error_causes")[i]).humane

\* C13: WithError appends to the one-shot list exactly the error field, then
\* an error_advice field iff it collected at least one advice string, then an
\* error_causes field with all causes but the first iff it found more than one
\* cause; the sticky list is left as it was.
C13_ErrorFieldsOneShot ==
    call.kind = "WithError" =>
        /\ extraFields = call.stickyBefore
        /\ extraFieldsOnce
              = call.onceBefore
                  \o <<[key |-> "error", val |-> call.err]>>
                  \o (IF call.advice # <<>>
                      THEN <<[key |-> "error_advice", val |-> call.advice]>> ELSE <<>>)
                  \o (IF Len(call.causes) > 1
                      THEN <<[key |-> "error_causes", val |-> Tail(call.causes)]>>
                      ELSE <<>>)

\* C13 witness: WithError on a logger with a sticky field and a one-shot field
\* already armed, with an error that yields advice and several causes: three
\* more one-shot fields.
C13_Witness ==
    /\ call.kind = "WithError"
    /\ call.stickyBefore # <<>>
    /\ call.onceBefore # <<>>
    /\ call.advice # <<>>
    /\ Len(call.causes) > 1
    /\ Len(extraFieldsOnce) = Len(call.onceBefore) + 3
    /\ extraFields = call.stickyBefore

----
\* Logger.DebugContext .. FatalContext

\* the fields of a local entry as a set, with the fields the zap logger
\* carries itself since WithOptions
FieldSet(fields) == {fields[i] : i \in DOMAIN fields} \cup {extraFields[i] : i \in DOMAIN extraFields}

\* C15: in any logger state, ErrorContext(ctx, msg, fields...) hands the local
\* zap logger one entry with the level, the message and the field set of the
\* entry of Ctx(ctx).Error(msg, fields...); likewise for the other levels.
C15_ContextSameLocalEntry ==
    call.kind = "LoggerContext" =>
        /\ Len(zapOut) = 1
        /\ zapOut[1].lvl = call.lvl
        /\ zapOut[1].msg = call.msg
        /\ FieldSet(zapOut[1].fields) = FieldSet(call.viaCtx)

----
\* Sugared calls with a context

CtxViews == {"LoggerWithCtx", "SugaredLoggerWithCtx"}

\* the positions of the collaborator call c among the calls of the last operation
EventsAt(c) == {i \in DOMAIN events : events[i] = c}

\* C14: a sugared context call (Errorw on the context-bound view, ErrorwContext
\* on the sugared logger, and the other levels) given a key/value list of odd
\* length does not index past the end of the list: it does not panic, and it
\* completes with its local log entry.
C14_OddListNoPanic ==
    (/\ call.kind \in SugaredKinds
     /\ call.method = "w"
     /\ Len(call.args) % 2 = 1) =>
        /\ ~call.panic
        /\ zapOut # <<>>

\* C16: a leveled call on a context-bound view, the sugared view included,
\* whose level is at or above minLevel emits one record, and with a recording
\* span it copies the merged fields onto the span iff the level is at or above
\* minAnnotateLevel and marks the span errored iff it is at or above
\* errorStatusLevel.
C16_SugaredThroughTelemetry ==
    (call.kind \in CtxViews /\ call.lvl >= minLevel) =>
        /\ Len(otelOut) = 1
        /\ otelOut[1].body = call.msg
        /\ call.recording =>
              /\ (call.lvl >= minAnnotateLevel) =>
                    (Len(zapOut) > 0 /\ spanAttrs = AttrsOf(zapOut[1].fields))
              /\ (call.lvl >= errorStatusLevel) =>
                    (Len(spanStatus) = 1 /\ Len(spanErrors) = 1)

\* C19: a Panic or Fatal call on a context-bound view whose level is at or
\* above minLevel emits its record, and marks a recording span errored when the
\* level is at or above errorStatusLevel, before any call to the local zap
\* logger, which is the call that panics or exits.
C19_TelemetryBeforeTermination ==
    (/\ call.kind \in CtxViews
     /\ call.lvl \in {PanicLevel, FatalLevel}
     /\ call.lvl >= minLevel) =>
        /\ EventsAt("otelLogger.Emit") # {}
        /\ \A z \in EventsAt("zap") :
              /\ \E e \in EventsAt("otelLogger.Emit") : e < z
              /\ (call.recording /\ call.lvl >= errorStatusLevel) =>
                    \E s \in EventsAt("span.SetStatus") : s < z

----
\* Goroutines

Done(t) == threads[t].pc = "done"
InEntry(f, t) == \E i \in DOMAIN threads[t].entry : threads[t].entry[i] = f

\* C17: with each goroutine on an instance of its own, derived from the common
\* parent, the entry of a goroutine's call carries exactly the one-shot fields
\* armed on its instance (those the instance was derived with and its own),
\* whatever the interleaving.
C17_DerivedInstancesIsolated ==
    (\A t \in Threads : threads[t].role = "derived") =>
        \A t \in Threads : Done(t) => threads[t].entry = threads[t].expected

\* C18: on a shared instance, a one-shot field that the other goroutine's call
\* has carried, that call being over when the goroutine that armed the field
\* makes its own call, is missing from that own call.
C18_OtherCallTakesOneShot ==
    (\A t \in Threads : threads[t].role = "shared") =>
        \A t, u \in Threads :
            (/\ t # u
             /\ Done(t)
             /\ u \in threads[t].after
             /\ InEntry(ThreadField(t), u)) => ~InEntry(ThreadField(t), t)

\* C18 witness: both goroutines share the parent and are through; the field
\* goroutine 1 armed is in the entry of goroutine 2 and not in its own.
C18_Witness ==
    /\ \A t \in Threads : threads[t].role = "shared" /\ Done(t)
    /\ InEntry(ThreadField(1), 2)
    /\ ~InEntry(ThreadField(1), 1)

\* C20: WithOptions on a Logger that another goroutine uses with With and the
\* leveled calls: the Logger's one-shot list is not written while WithOptions
\* copies it, and the clone's list is one the Logger held during the copy.
C20_WithOptionsConcurrentlySafe ==
    \A t \in Threads :
        (/\ threads[t].how = "WithOptions"
         /\ threads[t].pc \notin {"derive", "deriveLen"}) =>
            /\ ~threads[t].raced
            /\ threads[t].consistent

----
\* SugaredLogger.With

\* the fields of the local entries of the last operation, a sugared call: those
\* of the entry Logger.LogContext writes through the Logger's own zap logger,
\* and those of the entry the sugared call writes itself, with the fields its
\* zap logger carries
LocalFields ==
    UNION {{zapOut[i].fields[j] : j \in DOMAIN zapOut[i].fields} : i \in DOMAIN zapOut}
        \cup {WriterFields(call.kind)[j] : j \in DOMAIN WriterFields(call.kind)}

\* C21: a call on the sugared logger returned by With(k, v), made directly or
\* through its context-bound view, writes a local entry that carries k=v.
C21_SugaredWithReachesCtxView ==
    (/\ call.kind \in SugaredKinds
     /\ ~call.panic) =>
        \A j \in DOMAIN sugar.SugaredLogger : sugar.SugaredLogger[j] \in LocalFields

----
\* Caller capture

HasAttr(record, key) == \E j \in DOMAIN record.attrs : record.attrs[j].Key = key

Occurrences(f, s) == Cardinality({i \in DOMAIN s : s[i] = f})

\* C23: once both goroutines' calls are over, a one-shot field armed on the
\* parent before they started is in the entry of no more calls than the times
\* it was armed, whether the goroutines use the parent or instances cloned from
\* it while the field was armed.
C23_OneShotEmittedOnce ==
    (\A t \in Threads : Done(t)) =>
        \A t \in Threads : \A j \in DOMAIN threads[t].pending :
            Cardinality({u \in Threads : InEntry(threads[t].pending[j], u)})
                <= Occurrences(threads[t].pending[j], threads[t].pending)

\* the same for a goroutine on the parent and one on an instance it cloned
\* without any write of the parent falling into the copy
C23_ParentAndCloneEmitOnce ==
    (/\ \A t \in Threads : Done(t)
     /\ threads[1].role = "shared"
     /\ threads[2].how = "Clone"
     /\ ~threads[2].raced
     /\ threads[1].after = {2}) =>
        \A j \in DOMAIN threads[1].pending :
            ~(InEntry(threads[1].pending[j], 1) /\ InEntry(threads[1].pending[j], 2))

----
\* One local entry per call

\* C24: a leveled call through any entry point, unless it panicked on its
\* arguments, leaves exactly one entry with its message in the local log.
C24_OneLocalEntryPerCall ==
    (/\ call.kind \in LeveledKinds \cup SugaredKinds \cup {"LoggerContext"}
     /\ call.kind \in SugaredKinds => ~call.panic) =>
        Cardinality({i \in DOMAIN zapOut : zapOut[i].msg = call.msg}) = 1

----
\* WithOptions and the sticky fields

\* the sticky fields of instance i now
Sticky(i) == SliceOf(heap, loggers[i].extraFields)

\* C25: the sticky fields of every instance WithOptions has returned are those
\* of the instance it was derived from followed by the fields of its options,
\* and they are still what they were when WithOptions returned, after any
\* sequence of WithOptions calls.
C25_WithOptionsLeavesOthersAlone ==
    \A i \in DOMAIN loggers :
        /\ Sticky(i) = loggers[i].returned
        /\ loggers[i].from # 0 =>
               Sticky(i) = Sticky(loggers[i].from) \o loggers[i].fields

----
\* The lists after a leveled call

\* C26: a leveled call on Logger or on LoggerWithCtx leaves the one-shot list
\* empty and the sticky list as it was, at every level; a call below minLevel
\* leaves no record and no span attribute, so the one-shot fields it consumes
\* reach no telemetry.
C26_LeveledCallConsumesAlways ==
    [][call'.kind \in LeveledKinds =>
          /\ extraFieldsOnce' = <<>>
          /\ extraFields' = extraFields
          /\ call'.lvl < minLevel => (otelOut' = <<>> /\ spanAttrs' = <<>>)]_vars

\* a call on LoggerWithCtx below minLevel, with one-shot and sticky fields: the
\* one-shot list is empty, the sticky list is there, and nothing was emitted
C26_Witness ==
    /\ call.kind = "LoggerWithCtx"
    /\ call.lvl < minLevel
    /\ call.once # <<>>
    /\ extraFieldsOnce = <<>>
    /\ extraFields # <<>>
    /\ otelOut = <<>>
    /\ spanAttrs = <<>>
    /\ \E i \in DOMAIN zapOut : \A j \in DOMAIN call.once :
           \E k \in DOMAIN zapOut[i].fields : zapOut[i].fields[k] = call.once[j]

----
\* WithLogAutomaticEnv

\* C27: once WithLogAutomaticEnv has been applied, the exporters configured
\* follow from the endpoint: none for the empty endpoint; the gRPC exporter, on
\* that endpoint, if it contains 4317; else the HTTP exporter if it contains
\* 4318; and the exporter is insecure if OTEL_EXPORTER_OTLP_INSECURE is "true".
C27_ExporterFromEndpoint ==
    provider.pc = "applied" =>
        LET endpoint == provider.env.endpoint
            exporters == provider.providerOptions
        IN  /\ endpoint = <<>> => exporters = <<>>
            /\ strings_Contains(endpoint, Port4317) =>
                   /\ Len(exporters) = 1
                   /\ exporters[1].exporter = "grpc"
                   /\ exporters[1].endpoint = endpoint
            /\ (~strings_Contains(endpoint, Port4317)
                    /\ strings_Contains(endpoint, Port4318)) =>
                   /\ Len(exporters) = 1
                   /\ exporters[1].exporter = "http"
                   /\ exporters[1].endpoint = endpoint
            /\ provider.env.insecure = "true" =>
                   \A i \in DOMAIN exporters : exporters[i].insecure

\* an endpoint with both port numbers and the insecure variable "true": the
\* gRPC exporter, insecure
C27_Witness ==
    /\ provider.pc = "applied"
    /\ strings_Contains(provider.env.endpoint, Port4317)
    /\ strings_Contains(provider.env.endpoint, Port4318)
    /\ provider.env.insecure = "true"
    /\ Len(provider.providerOptions) = 1
    /\ provider.providerOptions[1].exporter = "grpc"
    /\ provider.providerOptions[1].insecure

====
